---- MODULE Spec2Model ----
\* Ant Colony System engine (src/src/system.rs) and its driver loop
\* (src/src/main.rs), as a state machine.
\*
\* An f64 is modelled by the rational it stands for and by how it got there:
\* [n, d, e] with n/d in lowest terms; d > 0 is a finite value, <<1,0>> is
\* +inf, <<-1,0>> is -inf and <<0,0>> is NaN.  e says how far the f64 may be
\* from n/d:
\*   e = 0  the f64 is n/d exactly;
\*   e = 1  the f64 is the f64 nearest to n/d (a literal such as 0.1, or the
\*          result of one operation on exact operands);
\*   e = 2  the f64 is within a few roundings of n/d.
\* The operators follow IEEE-754 (1/0 = inf, 0*inf = NaN, inf-inf = NaN,
\* every comparison with NaN false).  Two f64 whose rationals differ compare
\* as their rationals do (the rationals of the model are far further apart
\* than a rounding).  Two f64 with the same rational are equal when both
\* have e <= 1; when one has e = 2 the comparison can go either way, and
\* the operators that compare (max_by, min_by, the roulette, cost <
\* best_cost) give the set of their possible results.  Overflow, underflow
\* and the sign of zero are not modelled.  The exponents alpha and beta are
\* natural numbers.
EXTENDS Integers, Sequences, FiniteSets

VARIABLES
    \* AntSystem fields (system.rs:25-42)
    alpha, beta, rho, q, q0, phi, size, initial,
    distances, visibility, pheromones, initial_pheromone, best_solution,
    \* locals of AntSystem::run / build_solution and the position in them
    pc, ant, solutions, visited, solutions_to_return, best_cost,
    \* what the last selection step wrote to the trace: the branch taken and
    \* the roulette draw
    branch, rand,
    \* locals of main: the running best and the iteration counter
    best, iter,
    \* history: global updates completed in the current call of run, and the
    \* first (tour, cost) pair, in (generation, agent) order, of minimum cost
    \* among all the pairs run has returned
    global_updates, first_min

props == <<alpha, beta, rho, q, q0, phi, size, initial,
           distances, visibility, initial_pheromone>>
vars == <<alpha, beta, rho, q, q0, phi, size, initial,
          distances, visibility, pheromones, initial_pheromone, best_solution,
          pc, ant, solutions, visited, solutions_to_return, best_cost,
          branch, rand, best, iter, global_updates, first_min>>

\* ---------------------------------------------------------------- bounds

\* iterations of the driver loop (main.rs:33 runs 100)
MaxIters == 2
\* largest number of ants per generation (main.rs:32 uses 10)
MaxSize == 2

\* ------------------------------------------------------------ f64 values

Abs(x) == IF x < 0 THEN -x ELSE x

Sign(x) == IF x < 0 THEN -1 ELSE IF x > 0 THEN 1 ELSE 0

RECURSIVE GCD(_, _)
GCD(a, b) == IF b = 0 THEN a ELSE GCD(b, a % b)

RECURSIVE IsPow2(_)
IsPow2(k) == k = 1 \/ (k > 1 /\ k % 2 = 0 /\ IsPow2(k \div 2))

\* the f64 for n/d with error class e; n/0 is an infinity or NaN, and the
\* f64 nearest to a dyadic rational is that rational
F64(n, d, e) ==
    IF d = 0 THEN [n |-> Sign(n), d |-> 0, e |-> 0]
    ELSE LET g == GCD(Abs(n), Abs(d))
             s == Sign(d)
             dd == (s * d) \div g
         IN  [n |-> (s * n) \div g, d |-> dd,
              e |-> IF e = 1 /\ IsPow2(dd) THEN 0 ELSE e]

\* a literal, or an integer converted with `as f64`
Lit(n, d) == F64(n, d, 1)

Zero == Lit(0, 1)
One == Lit(1, 1)
Infinity == F64(1, 0, 0)
NaN == F64(0, 0, 0)

IsNaN(x) == x.d = 0 /\ x.n = 0
IsInf(x) == x.d = 0 /\ x.n # 0
IsZero(x) == x.d # 0 /\ x.n = 0

\* x is exactly 0.0
ExactZero(x) == IsZero(x) /\ x.e = 0

\* x is exactly a power of two, or minus one: multiplying or dividing by
\* it rounds nothing
Scaling(x) ==
    /\ x.e = 0 /\ x.d # 0 /\ x.n # 0
    /\ \/ x.d = 1 /\ IsPow2(Abs(x.n))
       \/ Abs(x.n) = 1 /\ IsPow2(x.d)

SameRational(x, y) == x.n = y.n /\ x.d = y.d

Neg(x) == [n |-> -x.n, d |-> x.d, e |-> x.e]

\* x + y
Add(x, y) ==
    IF x.d = 0 /\ y.d = 0
    THEN IF x.n = y.n THEN x ELSE NaN
    ELSE IF x.d = 0 THEN x
    ELSE IF y.d = 0 THEN y
    ELSE LET g == GCD(x.d, y.d)
             n == x.n * (y.d \div g) + y.n * (x.d \div g)
             e == IF ExactZero(x) THEN y.e
                  ELSE IF ExactZero(y) THEN x.e
                  ELSE IF x.e = 0 /\ y.e = 0 THEN 0
                  ELSE IF x.e <= 1 /\ y.e <= 1
                          /\ (SameRational(x, y) \/ n = 0)
                       THEN IF n = 0 THEN 0 ELSE x.e
                  ELSE 2
         IN  F64(n, (x.d \div g) * y.d, e)

\* x - y
Sub(x, y) == Add(x, Neg(y))

\* x * y
Mul(x, y) ==
    IF x.d = 0 \/ y.d = 0
    THEN F64(Sign(x.n) * Sign(y.n), 0, 0)
    ELSE IF ExactZero(x) \/ ExactZero(y) THEN Zero
    ELSE LET g1 == GCD(Abs(x.n), y.d)
             g2 == GCD(Abs(y.n), x.d)
             e == IF Scaling(x) THEN y.e
                  ELSE IF Scaling(y) THEN x.e
                  ELSE IF x.e = 0 /\ y.e = 0 THEN 0
                  ELSE 2
         IN  F64((x.n \div g1) * (y.n \div g2),
                 (x.d \div g2) * (y.d \div g1), e)

\* x / y
Div(x, y) ==
    IF x.d = 0 \/ y.d = 0 \/ y.n = 0
    THEN \* inf/inf, x/0, x/inf, NaN: by the signs alone
         IF IsNaN(x) \/ IsNaN(y) THEN NaN
         ELSE IF y.d = 0 THEN (IF x.d = 0 THEN NaN ELSE Zero)
         ELSE IF x.d = 0 THEN F64(x.n * (IF y.n < 0 THEN -1 ELSE 1), 0, 0)
         ELSE F64(x.n, 0, 0)
    ELSE IF ExactZero(x) THEN Zero
    ELSE LET g1 == GCD(Abs(x.n), Abs(y.n))
             g2 == GCD(x.d, y.d)
             n == (x.n \div g1) * (y.d \div g2)
             d == (x.d \div g2) * (y.n \div g1)
             ratio == F64(n, d, 0)
             e == IF Scaling(y) THEN x.e
                  ELSE IF x.e = 0 /\ y.e = 0 THEN 1
                  ELSE IF x.e <= 1 /\ y.e <= 1 /\ Scaling(ratio) THEN 0
                  ELSE 2
         IN  F64(n, d, e)

\* the order of the rationals; false when either is NaN
Lt(x, y) ==
    /\ ~IsNaN(x)
    /\ ~IsNaN(y)
    /\ IF x.d = 0 /\ y.d = 0 THEN x.n < y.n
       ELSE IF x.d = 0 THEN x.n < 0
       ELSE IF y.d = 0 THEN y.n > 0
       ELSE LET g == GCD(x.d, y.d)
            IN  x.n * (y.d \div g) < y.n * (x.d \div g)

Le(x, y) == ~IsNaN(x) /\ ~IsNaN(y) /\ ~Lt(y, x)

\* the same rational, reached by roundings that may differ
Unsure(x, y) ==
    /\ x.d # 0 /\ y.d # 0 /\ SameRational(x, y)
    /\ x.e = 2 \/ y.e = 2

\* the results x < y can have
LtOutcomes(x, y) == IF Unsure(x, y) THEN {TRUE, FALSE} ELSE {Lt(x, y)}

\* x.powf(k) for a natural exponent k: powf(x, 0.0) is 1.0 for every x and
\* powf(x, 1.0) is x
RECURSIVE Powf(_, _)
Powf(x, k) == IF k = 0 THEN One ELSE Mul(Powf(x, k - 1), x)

\* ------------------------------------------------------- pure functions

Dim(m) == Cardinality(DOMAIN m)

\* an N x N array from its rows of integers
Matrix(rows) ==
    [i \in 0..(Len(rows) - 1) |->
        [j \in 0..(Len(rows) - 1) |-> Lit(rows[i + 1][j + 1], 1)]]

init_pheromone_matrix(n, value) ==
    [i \in 0..(n - 1) |-> [j \in 0..(n - 1) |-> IF i = j THEN Zero ELSE value]]

compute_visiblity_matrix(dist) ==
    [i \in DOMAIN dist |-> [j \in DOMAIN dist[i] |-> Div(One, dist[i][j])]]

\* solution.windows(2): the consecutive pairs of a path
Windows(solution) ==
    [k \in 1..(IF Len(solution) < 2 THEN 0 ELSE Len(solution) - 1) |->
        <<solution[k], solution[k + 1]>>]

RECURSIVE FoldCost(_, _, _)
FoldCost(edges, dist, k) ==
    IF k = 0 THEN Zero
    ELSE Add(FoldCost(edges, dist, k - 1), dist[edges[k][1]][edges[k][2]])

\* compute_cost with the edge back to the start added: the cost of a closed
\* tour
ClosedCost(solution, dist) ==
    LET w == Windows(solution)
        open == FoldCost(w, dist, Len(w))
    IN  IF Len(solution) < 2 THEN open
        ELSE Add(open, dist[solution[Len(solution)]][solution[1]])

compute_cost(solution, dist) ==
    LET w == Windows(solution) IN FoldCost(w, dist, Len(w))

Contains(seq, x) == \E k \in 1..Len(seq) : seq[k] = x

\* Candidates skipping only the current city instead of every visited one
CandidatesSkipCurrent(vis, n) ==
    LET notCurrent(c) == c # vis[Len(vis)]
    IN  SelectSeq([k \in 1..n |-> k - 1], notCurrent)

\* the cities a selection step scans: 0..no_cities in increasing order,
\* skipping the visited ones
Candidates(vis, n) ==
    LET notVisited(c) == ~Contains(vis, c)
    IN  SelectSeq([k \in 1..n |-> k - 1], notVisited)

Last(seq) == seq[Len(seq)]

\* one candidate's product in intesification: pheromone * visibility^beta
Score(ph, vis, b, curr, city) == Mul(ph[curr][city], Powf(vis[curr][city], b))

\* one candidate's product in diversification:
\* pheromone^alpha * visibility^beta
Weight(ph, vis, a, b, curr, city) ==
    Mul(Powf(ph[curr][city], a), Powf(vis[curr][city], b))

\* max_by with the comparison the wrong way round: it keeps the smaller
RECURSIVE max_by_reversed(_, _)
max_by_reversed(values, k) ==
    IF k = 1 THEN {[ok |-> TRUE, v |-> values[1]]}
    ELSE UNION {
           IF ~acc.ok THEN {acc}
           ELSE IF IsNaN(acc.v[2]) \/ IsNaN(values[k][2])
                THEN {[ok |-> FALSE, v |-> values[k]]}
           ELSE {IF greater THEN acc ELSE [ok |-> TRUE, v |-> values[k]] :
                    greater \in LtOutcomes(acc.v[2], values[k][2])} :
           acc \in max_by_reversed(values, k - 1)}

\* Iterator::max_by over (city, value) pairs, folding the first k of them:
\* the later element wins unless the earlier one compares Greater;
\* partial_cmp(..).expect(..) panics on the first comparison with a NaN.
\* The set of the results the fold can have.
RECURSIVE max_by(_, _)
max_by(values, k) ==
    IF k = 1 THEN {[ok |-> TRUE, v |-> values[1]]}
    ELSE UNION {
           IF ~acc.ok THEN {acc}
           ELSE IF IsNaN(acc.v[2]) \/ IsNaN(values[k][2])
                THEN {[ok |-> FALSE, v |-> values[k]]}
           ELSE {IF greater THEN acc ELSE [ok |-> TRUE, v |-> values[k]] :
                    greater \in LtOutcomes(values[k][2], acc.v[2])} :
           acc \in max_by(values, k - 1)}

\* min_by keeping the later of two equal elements, as max_by does
RECURSIVE min_by_last(_, _)
min_by_last(list, k) ==
    IF k = 1 THEN {[ok |-> TRUE, v |-> list[1]]}
    ELSE UNION {
           IF ~acc.ok THEN {acc}
           ELSE IF IsNaN(acc.v[2]) \/ IsNaN(list[k][2])
                THEN {[ok |-> FALSE, v |-> list[k]]}
           ELSE {IF less THEN acc ELSE [ok |-> TRUE, v |-> list[k]] :
                    less \in LtOutcomes(acc.v[2], list[k][2])} :
           acc \in min_by_last(list, k - 1)}

\* Iterator::min_by over (tour, cost) pairs, folding the first k of them:
\* the earlier element wins unless it compares Greater;
\* partial_cmp(..).unwrap() panics on the first comparison with a NaN.
\* The set of the results the fold can have.
RECURSIVE min_by(_, _)
min_by(list, k) ==
    IF k = 1 THEN {[ok |-> TRUE, v |-> list[1]]}
    ELSE UNION {
           IF ~acc.ok THEN {acc}
           ELSE IF IsNaN(acc.v[2]) \/ IsNaN(list[k][2])
                THEN {[ok |-> FALSE, v |-> list[k]]}
           ELSE {IF less THEN [ok |-> TRUE, v |-> list[k]] ELSE acc :
                    less \in LtOutcomes(list[k][2], acc.v[2])} :
           acc \in min_by(list, k - 1)}

\* the denominator of diversification: the weights of the first k
\* candidates added up from 0.0
RECURSIVE SumWeights(_, _, _, _, _, _, _)
SumWeights(ph, vis, a, b, curr, cands, k) ==
    IF k = 0 THEN Zero
    ELSE Add(SumWeights(ph, vis, a, b, curr, cands, k - 1),
             Weight(ph, vis, a, b, curr, cands[k]))

\* the roulette loop of diversification from index i with accumulator acc:
\* the cities it can stop at
RECURSIVE RouletteFrom(_, _, _, _)
RouletteFrom(probs, r, i, acc) ==
    UNION {IF below \/ i = Len(probs) THEN {probs[i][1]}
           ELSE RouletteFrom(probs, r, i + 1, Add(acc, probs[i + 1][2])) :
           below \in LtOutcomes(r, acc)}

\* the roulette loop stopping when rand equals the accumulator too
RECURSIVE RouletteInclusiveFrom(_, _, _, _)
RouletteInclusiveFrom(probs, r, i, acc) ==
    UNION {IF below \/ (~IsNaN(r) /\ ~IsNaN(acc) /\ SameRational(r, acc))
              \/ i = Len(probs)
           THEN {probs[i][1]}
           ELSE RouletteInclusiveFrom(probs, r, i + 1,
                                      Add(acc, probs[i + 1][2])) :
           below \in LtOutcomes(r, acc)}

RouletteInclusive(probs, r) == RouletteInclusiveFrom(probs, r, 1, probs[1][2])

Roulette(probs, r) == RouletteFrom(probs, r, 1, probs[1][2])

\* the local update without its deposit phi * tau0
LocalUpdateNoDeposit(pheromone, ph_i, tau0) == Mul(Sub(One, ph_i), pheromone)

\* the local update of the arc just traversed
LocalUpdate(pheromone, ph_i, tau0) ==
    Add(Mul(Sub(One, ph_i), pheromone), Mul(ph_i, tau0))

\* the off-diagonal entries of an n x n matrix in the order the loops of
\* update_pheromones visit them
Entries(n) ==
    LET offDiagonal(k) == (k - 1) \div n # (k - 1) % n
        cells == SelectSeq([k \in 1..(n * n) |-> k], offDiagonal)
    IN  [i \in 1..Len(cells) |-> <<(cells[i] - 1) \div n, (cells[i] - 1) % n>>]

\* what update_pheromones assigns to an entry first
Evaporation(ph, edges, r, c, rh) ==
    IF Contains(edges, <<r, c>>) THEN Mul(Sub(One, rh), ph[r][c])
    ELSE ph[r][c]

\* the global update of the canonical algorithm: every arc evaporates
GlobalEntryEvaporateAll(ph, edges, cost, r, c, rh, qq) ==
    IF r = c THEN ph[r][c]
    ELSE LET evaporation == Mul(Sub(One, rh), ph[r][c])
         IN  IF Contains(edges, <<r, c>>)
             THEN Add(evaporation, Mul(rh, Div(qq, cost)))
             ELSE evaporation

\* one entry of the matrix after update_pheromones is through with it
GlobalEntry(ph, edges, cost, r, c, rh, qq) ==
    IF r = c THEN ph[r][c]
    ELSE LET evaporation == Evaporation(ph, edges, r, c, rh)
         IN  IF Contains(edges, <<r, c>>)
             THEN Add(evaporation, Mul(rh, Div(qq, cost)))
             ELSE evaporation

\* the matrix when update_pheromones has gone through the first `done`
\* entries and, with `evaporated`, has assigned the evaporation to the
\* next one
update_pheromones_until(ph, best_sol, dist, rh, qq, done, evaporated) ==
    LET cost == compute_cost(best_sol, dist)
        edges == Windows(best_sol)
        order == Entries(Dim(ph))
        pos(r, c) == CHOOSE i \in 1..Len(order) : order[i] = <<r, c>>
    IN  [r \in DOMAIN ph |->
            [c \in DOMAIN ph[r] |->
                IF r = c THEN ph[r][c]
                ELSE IF pos(r, c) <= done
                     THEN GlobalEntry(ph, edges, cost, r, c, rh, qq)
                ELSE IF pos(r, c) = done + 1 /\ evaporated
                     THEN Evaporation(ph, edges, r, c, rh)
                ELSE ph[r][c]]]

\* the matrix after update_pheromones returns Ok
update_pheromones(ph, best_sol, dist, rh, qq) ==
    update_pheromones_until(ph, best_sol, dist, rh, qq,
                            Len(Entries(Dim(ph))), FALSE)

\* the comparison with <=: a tie replaces best_solution too
ImprovesOrTies(cost, current) ==
    {below \/ (~IsNaN(cost) /\ ~IsNaN(current) /\ SameRational(cost, current)) :
        below \in LtOutcomes(cost, current)}

\* cost < best_cost, which lets run replace best_solution: its possible
\* results
Improves(cost, current) == LtOutcomes(cost, current)

\* the first pair of a list of (tour, cost) pairs whose cost no other
\* pair's cost is below
FirstMin(list) ==
    LET isMin(i) == \A j \in 1..Len(list) : ~Lt(list[j][2], list[i][2])
        first == CHOOSE i \in 1..Len(list) :
                    isMin(i) /\ \A j \in 1..(i - 1) : ~isMin(j)
    IN  list[first]

\* ------------------------------------------------------------ the inputs

\* 2^m
RECURSIVE Pow2(_)
Pow2(m) == IF m = 0 THEN 1 ELSE 2 * Pow2(m - 1)

\* the multiple of 2^-m just above lo when it is below hi, for the first
\* such m from m on: an f64 strictly between lo and hi, 0 <= lo < hi <= 1
RECURSIVE Between(_, _, _)
Between(lo, hi, m) ==
    LET above == F64((lo.n * Pow2(m)) \div lo.d + 1, Pow2(m), 0)
    IN  IF Lt(above, hi) THEN above ELSE Between(lo, hi, m + 1)

\* gen_range(0., 1.) returns any f64 of [0, 1).  Draws that lead to the
\* same outcome are represented by one of them: the grid below, and for
\* every interval of [0, 1) the comparisons of a step cut out a value
\* strictly inside it (Between).
Grid == {Lit(0, 1), Lit(1, 4), Lit(1, 2), Lit(3, 4)}

\* the draws of q (system.rs:289): the grid and, for a threshold inside
\* [0, 1), a value above it
QDraws(threshold) ==
    Grid \cup (IF Le(Zero, threshold) /\ Lt(threshold, One)
               THEN {Between(threshold, One, 1)} ELSE {})

\* the accumulator of the roulette loop when it looks at candidate k
RECURSIVE Acc(_, _)
Acc(probs, k) ==
    IF k = 1 THEN probs[1][2] ELSE Add(Acc(probs, k - 1), probs[k][2])

\* the draws of rand (system.rs:244): the grid and a value inside every
\* candidate's interval of [0, 1)
RDraws(probs) ==
    LET lo(k) == IF k = 1 \/ Lt(Acc(probs, k - 1), Zero) THEN Zero
                 ELSE Acc(probs, k - 1)
        hi(k) == IF k = Len(probs) \/ Lt(One, Acc(probs, k)) THEN One
                 ELSE Acc(probs, k)
    IN  Grid \cup {Between(lo(k), hi(k), 1) :
                     k \in {j \in 1..Len(probs) :
                              /\ lo(j).d # 0 /\ hi(j).d # 0
                              /\ Lt(lo(j), hi(j))}}

Single == Matrix(<< <<0>> >>)
Triangle == Matrix(<< <<0, 2, 2>>, <<1, 0, 1>>, <<1, 1, 0>> >>)
ZeroArc == Matrix(<< <<0, 0, 2>>, <<1, 0, 2>>, <<2, 1, 0>> >>)
ZeroPair == Matrix(<< <<0, 0>>, <<1, 0>> >>)
FourCities ==
    Matrix(<< <<0, 2, 9, 10>>, <<1, 0, 6, 4>>, <<15, 7, 0, 8>>, <<6, 3, 12, 0>> >>)
\* after one generation the scores of the two arcs out of city 0 are the
\* same rational, 1/120, reached by different roundings
NearTie == Matrix(<< <<0, 9, 12>>, <<9, 0, 11>>, <<10, 1, 0>> >>)
\* the first probability out of city 0 is the rational 1/4, a draw of the
\* grid, reached through a rounded sum
QuarterOdds ==
    Matrix(<< <<0, 9, 6, 6>>, <<1, 0, 1, 1>>, <<1, 1, 0, 1>>, <<1, 1, 1, 0>> >>)

DistanceSet ==
    {Single, ZeroPair, Triangle, ZeroArc, FourCities, NearTie, QuarterOdds}

\* the parameters of main.rs:35-44
MainProps ==
    [alpha |-> 1, beta |-> 1, rho |-> Lit(1, 2), q |-> One, q0 |-> Lit(1, 2),
     phi |-> Lit(1, 2), initial_pheromone |-> Lit(1, 10)]

GreedyProps == [MainProps EXCEPT !.q0 = One]

PropsSet ==
    { MainProps,
      GreedyProps,
      [MainProps EXCEPT !.initial_pheromone = Zero],
      [MainProps EXCEPT !.alpha = 2, !.beta = 0, !.initial_pheromone = One],
      [MainProps EXCEPT !.rho = One, !.q = Zero, !.phi = One,
                        !.initial_pheromone = One] }

\* ------------------------------------------------------- the state machine

\* AntSystem::new
new(sz, init, p, dist) ==
    [alpha |-> p.alpha, beta |-> p.beta, rho |-> p.rho, q |-> p.q,
     q0 |-> p.q0, phi |-> p.phi, size |-> sz, initial |-> init,
     distances |-> dist,
     visibility |-> compute_visiblity_matrix(dist),
     pheromones |-> init_pheromone_matrix(Dim(dist), p.initial_pheromone),
     initial_pheromone |-> p.initial_pheromone,
     best_solution |-> << >>]

\* the small instances are run with every parameter set, from every city;
\* the four-city instance from city 0 with the parameters of main.rs and
\* one ant, and with q0 = 1 and every number of ants; NearTie from city 0
\* with q0 = 1 and QuarterOdds from city 0 with the parameters of main.rs,
\* one ant each
Configurations ==
    {c \in [distances : DistanceSet, props : PropsSet, size : 1..MaxSize,
            initial : UNION {DOMAIN d : d \in DistanceSet}] :
        /\ c.initial \in DOMAIN c.distances
        /\ c.distances = FourCities =>
              /\ c.initial = 0 /\ c.props \in {MainProps, GreedyProps}
              /\ c.props = MainProps => c.size = 1
        /\ c.distances = NearTie =>
              c.initial = 0 /\ c.props = GreedyProps /\ c.size = 1
        /\ c.distances = QuarterOdds =>
              c.initial = 0 /\ c.props = MainProps /\ c.size = 1}

Init ==
    \E c \in Configurations :
        LET s == new(c.size, c.initial, c.props, c.distances)
        IN  /\ alpha = s.alpha /\ beta = s.beta /\ rho = s.rho /\ q = s.q
            /\ q0 = s.q0 /\ phi = s.phi /\ size = s.size
            /\ initial = s.initial /\ distances = s.distances
            /\ visibility = s.visibility /\ pheromones = s.pheromones
            /\ initial_pheromone = s.initial_pheromone
            /\ best_solution = s.best_solution
            /\ pc = "main" /\ ant = 0 /\ solutions = << >>
            /\ visited = << >> /\ solutions_to_return = << >>
            /\ best_cost = Infinity /\ branch = "none" /\ rand = NaN
            /\ best = << >> /\ iter = 0
            /\ global_updates = 0 /\ first_min = << >>

\* main.rs:67-83 and system.rs:81: an iteration of the driver calls run
RunStart ==
    /\ pc = "main" /\ iter < MaxIters
    /\ pc' = "for_ant" /\ ant' = 0 /\ solutions' = << >>
    /\ solutions_to_return' = << >> /\ global_updates' = 0
    /\ UNCHANGED <<props, pheromones, best_solution, visited, best_cost,
                   branch, rand, best, iter, first_min>>

\* system.rs:83-84, 280-287: the next ant starts at the initial city
BuildSolutionStart ==
    /\ pc = "for_ant" /\ ant < size
    /\ visited' = <<initial>> /\ branch' = "none" /\ rand' = NaN
    /\ pc' = "select"
    /\ UNCHANGED <<props, pheromones, best_solution, ant, solutions,
                   solutions_to_return, best_cost, best, iter,
                   global_updates, first_min>>

\* system.rs:288-294, 126-184: a selection step with q <= q0.  The step
\* panics in max_by, or it moves and updates the arc; its last writeln
\* (173-181) then succeeds or makes run return Err.
Intesification ==
    /\ pc = "select" /\ Len(visited) # Dim(visibility)
    /\ \E qd \in QDraws(q0) : Le(qd, q0)
    /\ LET curr == Last(visited)
           cands == Candidates(visited, Dim(visibility))
           values == [k \in 1..Len(cands) |->
                        <<cands[k], Score(pheromones, visibility, beta, curr, cands[k])>>]
       IN  \E m \in max_by(values, Len(values)) :
             LET choosen == m.v[1]
             IN  IF ~m.ok
                 THEN /\ pc' = "panicked"
                      /\ UNCHANGED <<visited, pheromones, branch>>
                 ELSE /\ visited' = Append(visited, choosen)
                      /\ pheromones' =
                           [pheromones EXCEPT ![curr][choosen] =
                              LocalUpdate(@, phi, initial_pheromone)]
                      /\ branch' = "intensification"
                      /\ pc' \in {"select", "failed"}
    /\ rand' = NaN
    /\ UNCHANGED <<props, best_solution, ant, solutions, solutions_to_return,
                   best_cost, best, iter, global_updates, first_min>>

\* system.rs:288-298, 186-277: a selection step with q > q0.  Its last
\* writeln (266-274) succeeds or makes run return Err.
Diversification ==
    /\ pc = "select" /\ Len(visited) # Dim(visibility)
    /\ \E qd \in QDraws(q0) : ~Le(qd, q0)
    /\ LET curr == Last(visited)
           cands == Candidates(visited, Dim(visibility))
           sum == SumWeights(pheromones, visibility, alpha, beta, curr,
                             cands, Len(cands))
           probs == [k \in 1..Len(cands) |->
                       <<cands[k],
                         Div(Weight(pheromones, visibility, alpha, beta,
                                    curr, cands[k]), sum)>>]
       IN  \E r \in RDraws(probs) :
             \E choosen \in Roulette(probs, r) :
               /\ visited' = Append(visited, choosen)
               /\ pheromones' =
                    [pheromones EXCEPT ![curr][choosen] =
                       LocalUpdate(@, phi, initial_pheromone)]
               /\ rand' = r
    /\ branch' = "diversification"
    /\ pc' \in {"select", "failed"}
    /\ UNCHANGED <<props, best_solution, ant, solutions,
                   solutions_to_return, best_cost, best, iter,
                   global_updates, first_min>>

\* system.rs:288, 301-308 and 85: the tour is complete and joins solutions
BuildSolutionDone ==
    /\ pc = "select" /\ Len(visited) = Dim(visibility)
    /\ solutions' = Append(solutions, visited)
    /\ visited' = << >> /\ ant' = ant + 1 /\ pc' = "for_ant"
    /\ branch' = "none" /\ rand' = NaN
    /\ UNCHANGED <<props, pheromones, best_solution, solutions_to_return,
                   best_cost, best, iter, global_updates, first_min>>

\* system.rs:88-93: all ants are done; the cost to beat
ScoreStart ==
    /\ pc = "for_ant" /\ ant = size
    /\ solutions_to_return' = << >>
    /\ best_cost' = IF best_solution = << >> THEN Infinity
                    ELSE compute_cost(best_solution, distances)
    /\ pc' = "score"
    /\ UNCHANGED <<props, pheromones, best_solution, ant, solutions, visited,
                   branch, rand, best, iter, global_updates, first_min>>

\* system.rs:95-111: score the next solution, keep it if it is better
ScoreStep ==
    /\ pc = "score" /\ Len(solutions_to_return) < Len(solutions)
    /\ LET solution == solutions[Len(solutions_to_return) + 1]
           cost == compute_cost(solution, distances)
       IN  /\ \E better \in Improves(cost, best_cost) :
                IF better
                THEN best_cost' = cost /\ best_solution' = solution
                ELSE UNCHANGED <<best_cost, best_solution>>
           /\ solutions_to_return' =
                Append(solutions_to_return, <<solution, cost>>)
    /\ UNCHANGED <<props, pheromones, pc, ant, solutions, visited, branch,
                   rand, best, iter, global_updates, first_min>>

\* system.rs:113-121, 311-356: the global update, then run returns Ok
UpdatePheromones ==
    /\ pc = "score" /\ Len(solutions_to_return) = Len(solutions)
    /\ pheromones' = update_pheromones(pheromones, best_solution, distances,
                                       rho, q)
    /\ global_updates' = global_updates + 1
    /\ pc' = "returned"
    /\ UNCHANGED <<props, best_solution, ant, solutions, visited,
                   solutions_to_return, best_cost, branch, rand, best, iter,
                   first_min>>

\* system.rs:114-120, 333-351: a write of the global update fails and run
\* returns Err.  The writeln of 114-119 fails before the first entry; the
\* write of 333-339 fails before an entry's assignment; the write of 345 or
\* 348 fails after the entry got its evaporation and before the deposit;
\* the writeln of 351 fails when the entry is complete.
UpdatePheromonesFails ==
    /\ pc = "score" /\ Len(solutions_to_return) = Len(solutions)
    /\ \E done \in 0..Len(Entries(Dim(pheromones))), evaporated \in BOOLEAN :
         /\ evaporated => done < Len(Entries(Dim(pheromones)))
         /\ pheromones' =
              update_pheromones_until(pheromones, best_solution, distances,
                                      rho, q, done, evaporated)
    /\ pc' = "failed"
    /\ UNCHANGED <<props, best_solution, ant, solutions, visited,
                   solutions_to_return, best_cost, branch, rand, best, iter,
                   global_updates, first_min>>

\* a write that changes nothing after it fails: main.rs:68-81 before run
\* and 106-111 after the loop, system.rs:286-287 at the start of a tour,
\* 290-296, 146, 165, 218-258 in a selection step before it moves, 301-306
\* at the end of a tour, 97-103 before a solution is scored, main.rs:89-94
\* after run has returned.  The program ends with the error.
WriteFails ==
    /\ \/ pc = "main"
       \/ pc = "for_ant" /\ ant < size
       \/ pc = "select"
       \/ pc = "score" /\ Len(solutions_to_return) < Len(solutions)
       \/ pc = "returned"
    /\ pc' = "failed"
    /\ UNCHANGED <<props, pheromones, best_solution, ant, solutions, visited,
                   solutions_to_return, best_cost, branch, rand, best, iter,
                   global_updates, first_min>>

\* main.rs:84-102: the driver keeps the better of its best and this
\* generation's minimum
MainStep ==
    /\ pc = "returned"
    /\ \E m \in min_by(solutions_to_return, Len(solutions_to_return)) :
         IF ~m.ok
         THEN pc' = "panicked" /\ UNCHANGED <<best, iter>>
         ELSE /\ \E less \in (IF best = << >> THEN {TRUE}
                              ELSE LtOutcomes(m.v[2], best[2])) :
                   best' = IF less THEN m.v ELSE best
              /\ iter' = iter + 1
              /\ pc' = "main"
    /\ first_min' = FirstMin((IF first_min = << >> THEN << >> ELSE <<first_min>>)
                           \o solutions_to_return)
    /\ UNCHANGED <<props, pheromones, best_solution, ant, solutions, visited,
                   solutions_to_return, best_cost, branch, rand,
                   global_updates>>

Next ==
    \/ RunStart
    \/ BuildSolutionStart
    \/ Intesification
    \/ Diversification
    \/ BuildSolutionDone
    \/ ScoreStart
    \/ ScoreStep
    \/ UpdatePheromones
    \/ UpdatePheromonesFails
    \/ WriteFails
    \/ MainStep

Spec == Init /\ [][Next]_vars

\* ------------------------------------------------------------ properties
\* The properties state what they expect from the matrices and the
\* arithmetic alone, not through the operators of the selection and update
\* steps above.  They are about the steps the program takes; where a step
\* can also end with the writer's error, they say so.

N == Dim(distances)
Cities == 0..(N - 1)

\* the sum of the distances of a path's consecutive edges, no edge back to
\* the start
RECURSIVE OpenPathSum(_)
OpenPathSum(t) ==
    IF Len(t) < 2 THEN Zero
    ELSE Add(OpenPathSum(SubSeq(t, 1, Len(t) - 1)),
             distances[t[Len(t) - 1]][t[Len(t)]])

\* (r, c) is one of the consecutive edges of path t
OnTour(t, r, c) == \E k \in 1..(Len(t) - 1) : t[k] = r /\ t[k + 1] = c

IsTour(t) ==
    /\ Len(t) = N
    /\ t[1] = initial
    /\ \A c \in Cities : Cardinality({k \in 1..Len(t) : t[k] = c}) = 1

\* a selection step: build_solution is in its loop and the path grows; the
\* step's last write may fail
SelectionStep ==
    /\ pc = "select" /\ pc' \in {"select", "failed"}
    /\ Len(visited') = Len(visited) + 1

Unvisited == {c \in Cities : \A k \in 1..Len(visited) : visited[k] # c}

\* the unvisited cities in increasing order
UnvisitedInOrder ==
    [k \in 1..Cardinality(Unvisited) |->
        CHOOSE c \in Unvisited :
            Cardinality({b \in Unvisited : b < c}) = k - 1]

\* C1: every tour build_solution returns, and so every tour run returns,
\* has length N, starts with the initial city and holds every city once.
C1_ToursArePermutations ==
    /\ \A i \in 1..Len(solutions) : IsTour(solutions[i])
    /\ \A i \in 1..Len(solutions_to_return) : IsTour(solutions_to_return[i][1])

C1_Witness ==
    /\ pc = "returned" /\ distances = FourCities /\ iter = 1
    /\ solutions_to_return[1][1] = <<0, 3, 1, 2>>
    /\ best_solution # solutions_to_return[1][1]

\* C2: the cost of best_solution never goes up, and best_solution is
\* replaced only while it is empty or by a tour of strictly lower cost.
C2_BestCostNonIncreasing ==
    [][/\ best_solution # << >> =>
            /\ best_solution' # << >>
            /\ Le(OpenPathSum(best_solution'), OpenPathSum(best_solution))
       /\ best_solution' # best_solution =>
            \/ best_solution = << >>
            \/ Lt(OpenPathSum(best_solution'), OpenPathSum(best_solution))]_vars

\* a later generation has replaced the best tour the driver still holds
C2_Witness ==
    /\ pc = "returned" /\ best # << >>
    /\ best_solution # best[1]
    /\ Lt(OpenPathSum(best_solution), best[2])

\* the value the global update gives an entry on the best tour
Deposited(r, c) ==
    Add(Mul(Sub(One, rho), pheromones[r][c]),
        Mul(rho, Div(q, OpenPathSum(best_solution))))

\* C3: the global update sets every off-diagonal entry on the best tour to
\* (1-rho)*pre + rho*(q/cost) and leaves every other entry, the reverse of a
\* best edge and the diagonal included, as it was.  An update that the
\* writer's error cuts short changes no entry off the best tour either, and
\* leaves an entry on it as it was, evaporated, or updated.
C3_GlobalUpdateFrame ==
    [][/\ pc = "score" /\ pc' = "returned" =>
            \A r, c \in Cities :
                pheromones'[r][c] =
                    IF r # c /\ OnTour(best_solution, r, c)
                    THEN Deposited(r, c)
                    ELSE pheromones[r][c]
       /\ pc = "score" /\ pc' = "failed" =>
            \A r, c \in Cities :
                \/ pheromones'[r][c] = pheromones[r][c]
                \/ /\ r # c /\ OnTour(best_solution, r, c)
                   /\ pheromones'[r][c] \in
                        {Mul(Sub(One, rho), pheromones[r][c]),
                         Deposited(r, c)}]_vars

\* after an update, a best edge holds a changed value and its reverse,
\* not on the tour, holds another
C3_Witness ==
    /\ pc = "returned" /\ N >= 3
    /\ \E r, c \in Cities :
        /\ OnTour(best_solution, r, c) /\ ~OnTour(best_solution, c, r)
        /\ pheromones[r][c] # initial_pheromone
        /\ pheromones[c][r] = initial_pheromone

\* C4: a call of run does no global update before all ants have built and
\* been scored, and exactly one by the time it returns its list; the list
\* has one (tour, cost) pair per ant, in ant order, each cost the open-path
\* sum, and the tour the update used costs no more than any tour of this
\* generation.  Outside the selection steps the pheromones change only
\* when all ants have been scored (a call that ends with the writer's
\* error returns no list and has done none or a part of the update).
C4_OneUpdatePerRun ==
    /\ [](/\ pc \in {"for_ant", "select", "score"} => global_updates = 0
          /\ pc = "returned" =>
              /\ global_updates = 1
              /\ Len(solutions_to_return) = size
              /\ \A i \in 1..size :
                  /\ solutions_to_return[i][1] = solutions[i]
                  /\ solutions_to_return[i][2] = OpenPathSum(solutions[i])
                  /\ ~Lt(OpenPathSum(solutions[i]), OpenPathSum(best_solution)))
    /\ [][(pheromones' # pheromones /\ ~SelectionStep) =>
            /\ pc = "score"
            /\ Len(solutions) = size /\ Len(solutions_to_return) = size
            /\ global_updates = 0]_vars

C4_Witness ==
    /\ pc = "returned" /\ iter = 1 /\ size = 2 /\ N >= 3
    /\ global_updates = 1
    /\ solutions_to_return[1][2] # solutions_to_return[2][2]

\* C5: no engine is constructed from a distance matrix with a zero
\* off-diagonal entry, so no off-diagonal visibility is infinite.
C5_ZeroDistanceRejected ==
    \A i, j \in Cities :
        i # j => ~IsZero(distances[i][j]) /\ ~IsInf(visibility[i][j])

\* C6: a selection step changes exactly the entry of the arc it traversed,
\* to (1-phi)*t + phi*tau0 for the value t the entry held, and no step
\* leaves a negative entry.
C6_LocalUpdate ==
    [][/\ SelectionStep =>
            LET u == Last(visited)
                v == Last(visited')
            IN  pheromones' =
                  [pheromones EXCEPT ![u][v] =
                     Add(Mul(Sub(One, phi), pheromones[u][v]),
                         Mul(phi, initial_pheromone))]
       /\ \A r, c \in Cities : ~Lt(pheromones'[r][c], Zero)]_vars

\* a selection step of a later generation has moved an entry that the
\* global update had changed
C6_Witness ==
    /\ pc = "select" /\ iter >= 1 /\ Len(visited) >= 2
    /\ branch = "diversification"
    /\ LET u == visited[Len(visited) - 1]
           v == Last(visited)
       IN  /\ pheromones[u][v] # initial_pheromone
           /\ OnTour(best_solution, u, v)

\* the probabilities of diversification from the state before the step
Wgt(c) ==
    Mul(Powf(pheromones[Last(visited)][c], alpha),
        Powf(visibility[Last(visited)][c], beta))

RECURSIVE WgtSum(_)
WgtSum(k) ==
    IF k = 0 THEN Zero ELSE Add(WgtSum(k - 1), Wgt(UnvisitedInOrder[k]))

Prob(c) == Div(Wgt(c), WgtSum(Len(UnvisitedInOrder)))

\* the cumulative probability of the first k unvisited cities
RECURSIVE Cumulative(_)
Cumulative(k) ==
    IF k = 1 THEN Prob(UnvisitedInOrder[1])
    ELSE Add(Cumulative(k - 1), Prob(UnvisitedInOrder[k]))

DiversificationStep == SelectionStep /\ branch' = "diversification"

\* the step picked the k-th unvisited city and a cumulative scan can: k is
\* the last position or one that may trigger, and no earlier position must
\* trigger
Picked(k, May(_), Must(_)) ==
    /\ visited' = Append(visited, UnvisitedInOrder[k])
    /\ k = Len(UnvisitedInOrder) \/ May(k)
    /\ \A j \in 1..(k - 1) : ~Must(j)

\* the cumulative sum is above the draw: the rationals say so, or they are
\* the same and rounding decides
MayExceed(k) ==
    Lt(rand', Cumulative(k)) \/ Unsure(rand', Cumulative(k))
MustExceed(k) == Lt(rand', Cumulative(k))

\* the cumulative sum is the draw or above it
MayReach(k) == Le(rand', Cumulative(k))
MustReach(k) == Le(rand', Cumulative(k)) /\ ~Unsure(rand', Cumulative(k))

\* C7, as amended: diversification picks the first unvisited city, in
\* increasing order, whose cumulative probability is strictly above the
\* draw, and the last one if there is none; the city is unvisited.
C7_RouletteStrict ==
    [][DiversificationStep =>
        /\ Last(visited') \in Unvisited
        /\ \E k \in 1..Len(UnvisitedInOrder) :
              Picked(k, MayExceed, MustExceed)]_vars

\* every off-diagonal distance is positive
PositiveDistances == \A i, j \in Cities : i # j => Lt(Zero, distances[i][j])

\* C7, as claimed: the first city whose cumulative probability reaches or
\* exceeds the draw (stated for positive distances).
C7_RouletteReaches ==
    [][DiversificationStep /\ PositiveDistances =>
        /\ Last(visited') \in Unvisited
        /\ \E k \in 1..Len(UnvisitedInOrder) :
              Picked(k, MayReach, MustReach)]_vars

\* of three candidates the one in the middle was picked
C7_Witness ==
    /\ pc = "select" /\ branch = "diversification"
    /\ N = 4 /\ visited = <<0, 2>>
    /\ ~IsNaN(rand)

Scr(c) ==
    Mul(pheromones[Last(visited)][c], Powf(visibility[Last(visited)][c], beta))

IntensificationStep == SelectionStep /\ branch' = "intensification"

GreedyChoice ==
    IntensificationStep =>
        /\ Last(visited') \in Unvisited
        /\ \A c \in Unvisited \ {Last(visited')} :
              Le(Scr(c), Scr(Last(visited')))

\* the first ant of the first generation on the four-city instance with
\* q0 = 1, beta = 1 and a positive initial pheromone: its tour, and the cost
\* run returns for it
FirstAnt(cost) ==
    (/\ distances = FourCities /\ initial = 0 /\ q0 = One /\ beta = 1
     /\ Lt(Zero, initial_pheromone) /\ iter = 0) =>
        /\ Len(solutions) >= 1 => solutions[1] = <<0, 1, 3, 2>>
        /\ Len(solutions_to_return) >= 1 =>
              solutions_to_return[1] = <<<<0, 1, 3, 2>>, Lit(cost, 1)>>

\* C8, as amended: intensification picks an unvisited city whose score no
\* other unvisited city's score exceeds; on the four-city instance from
\* city 0 with q0 = 1, beta = 1 and initial pheromone 0.1 the first ant's
\* tour is [0,1,3,2], of cost 2 + 4 + 12 = 18.
C8_GreedyChoice ==
    [][GreedyChoice /\ FirstAnt(18)']_vars

\* C8, as claimed: the same with cost 14.
C8_GreedyCost14 ==
    [][GreedyChoice /\ FirstAnt(14)']_vars

C8_Witness ==
    /\ distances = FourCities /\ q0 = One /\ iter = 0 /\ pc = "returned"
    /\ solutions_to_return[1] = <<<<0, 1, 3, 2>>, Lit(18, 1)>>

\* C9: a diversification step whose weights add up to zero fails: it
\* appends no city and changes no pheromone (stated for positive distances).
C9_DegenerateFails ==
    [][(pc = "select" /\ Len(visited) # N /\ branch' = "diversification"
        /\ PositiveDistances /\ IsZero(WgtSum(Len(UnvisitedInOrder)))) =>
            visited' = visited /\ pheromones' = pheromones]_vars

\* C10: after every iteration of the driver its running best is the
\* engine's best_solution with its cost, and both are the first pair of
\* minimum cost among all the pairs returned so far.
C10_DriverBestIsEngineBest ==
    (pc = "main" /\ iter >= 1) =>
        /\ best = <<best_solution, OpenPathSum(best_solution)>>
        /\ best = first_min

\* two ants of the second generation returned different tours of the same
\* cost
C10_Witness ==
    /\ pc = "main" /\ iter = 2 /\ size = 2
    /\ solutions_to_return[1][2] = solutions_to_return[2][2]
    /\ solutions_to_return[1][1] # solutions_to_return[2][1]

====
